---- MODULE Spec2Model ----
(***************************************************************************)
(* Streaming chat orchestration of ai-assistant-web.                       *)
(*                                                                         *)
(* The model follows ChatService.transformStream (chat.service): the       *)
(* async start() callback of the caller-facing ReadableStream reads the    *)
(* provider stream chunk by chunk, buffers tool-call deltas, executes the  *)
(* buffered tool calls when a finish reason arrives, persists their        *)
(* results through MemoryService and asks the provider for a follow-up     *)
(* completion.  Every await of start() is a step of its own, so that the   *)
(* caller's cancel() can fall between any two of them.                     *)
(*                                                                         *)
(* inputStream is what the signature of transformStream says it is: a      *)
(* ReadableStream whose chunks have the StreamChunk shape (choices, delta,  *)
(* toolCalls, finishReason).                                               *)
(*                                                                         *)
(* JavaScript strings that are concatenated (tool-call arguments) are      *)
(* sequences of tokens; the values undefined and null are the strings      *)
(* "undefined" and "null".                                                 *)
(***************************************************************************)
EXTENDS Integers, Sequences, FiniteSets, TLC

\* Bounds of the model.
MaxChunks == 3      \* chunks the provider delivers on the initial stream
MaxFaults == 1      \* store / provider calls that fail during one exchange

Undefined == "undefined"
Null == "null"

\* Default page size of MemoryService.getMessages.
DefaultLimit == 100

(***************************************************************************)
(* JSON text of tool-call arguments.  An argument string is a sequence of  *)
(* the tokens  {  }  and  "path":"x" ; over this alphabet the only texts   *)
(* JSON.parse accepts are {} and {"path":"x"}.  A parsed object is the     *)
(* sequence of its <<field, typeof, value>> entries, in insertion order.   *)
(***************************************************************************)
LBrace == "{"
RBrace == "}"
PathMember == "\"path\":\"x\""

EmptyObject == <<>>

JSONparse(text) ==
  IF text = <<LBrace, RBrace>> THEN [ok |-> TRUE, value |-> EmptyObject]
  ELSE IF text = <<LBrace, PathMember, RBrace>>
    THEN [ok |-> TRUE, value |-> << <<"path", "string", "x">> >>]
  ELSE [ok |-> FALSE, value |-> EmptyObject]

(***************************************************************************)
(* Provider chunks (StreamChunk).  toolCalls = <<>> stands for an absent   *)
(* toolCalls property.                                                     *)
(***************************************************************************)
Indexes == {0, 1}
ArgPieces == {<<LBrace>>, <<RBrace>>, <<LBrace, PathMember, RBrace>>}

CallId(i) == IF i = 0 THEN "call_A" ELSE "call_B"

\* A delta that opens a tool call carries id and name; a later one only
\* carries a piece of the argument string.
ToolCallDeltas ==
  { [index |-> i, id |-> CallId(i), type |-> "function",
     function |-> [name |-> n, arguments |-> a]] :
        i \in Indexes, n \in {"file_read", "no_such_tool"}, a \in ArgPieces }
  \cup
  { [index |-> i, id |-> "", type |-> "function",
     function |-> [name |-> "", arguments |-> a]] :
        i \in Indexes, a \in ArgPieces }

Choice(content, toolCalls, finishReason) ==
  [index |-> 0,
   delta |-> [role |-> Undefined, content |-> content, toolCalls |-> toolCalls],
   finishReason |-> finishReason]

Chunk(id, choices) ==
  [id |-> id, object |-> "chat.completion.chunk", choices |-> choices]

\* A delta list that opens two parallel tool calls at once.
ParallelOpening ==
  << [index |-> 0, id |-> CallId(0), type |-> "function",
      function |-> [name |-> "file_read", arguments |-> <<LBrace>>]],
     [index |-> 1, id |-> CallId(1), type |-> "function",
      function |-> [name |-> "file_read", arguments |-> <<LBrace, PathMember, RBrace>>]] >>

\* The chunks of the initial completion: one choice each (the request sets
\* no n), plus one chunk with two choices whose first one finishes the turn
\* with tool_calls.
ProviderChunks ==
  { Chunk(<<"chatcmpl", 0>>, <<Choice(c, <<>>, Null)>>) : c \in {"a", "b"} }
  \cup
  { Chunk(<<"chatcmpl", 0>>, <<Choice(Undefined, <<d>>, Null)>>) : d \in ToolCallDeltas }
  \cup
  { Chunk(<<"chatcmpl", 0>>, <<Choice(Undefined, <<>>, f)>>) :
       f \in {"stop", "length", "content_filter", "tool_calls"} }
  \cup
  { Chunk(<<"chatcmpl", 0>>, <<Choice(Undefined, ParallelOpening, Null)>>),
    Chunk(<<"chatcmpl", 0>>,
          << Choice(Undefined, <<>>, "tool_calls"), Choice("b", <<>>, Null) >>) }

\* The stream the provider answers a follow-up completion with.
ContinuationStream(k) ==
  << Chunk(<<"chatcmpl", k>>, << Choice("c", <<>>, Null) >>),
     Chunk(<<"chatcmpl", k>>, << Choice(Undefined, <<>>, "stop") >>) >>

(***************************************************************************)
(* ToolService (tool.service).  A ToolResult keeps its optional members    *)
(* result and error as <<>> when they are absent; an error message is the  *)
(* pair of its fixed text and the interpolated value.                      *)
(***************************************************************************)
Absent == <<>>

TimedResult(success, result, error, executionTimeMs) ==
  [success |-> success, result |-> result, error |-> error,
   executionTimeMs |-> executionTimeMs]

ToolResult(success, result, error) == TimedResult(success, result, error, 0)

\* A parameter schema: required may be missing, properties maps a field to
\* its declared type and its enum ({} for none).
Plain(type) == [type |-> type, enum |-> {}]

\* The built-in tools of the model and their parameter schemas.
toolRegistry ==
  [file_read |->
     [required |-> <<"path">>,
      properties |-> [path |-> [type |-> "string", enum |-> {}],
                      encoding |-> [type |-> "string", enum |-> {"utf-8", "base64"}],
                      maxLines |-> [type |-> "integer", enum |-> {}]]],
   file_write |->
     [required |-> <<"path", "content">>,
      properties |-> [path |-> Plain("string"),
                      content |-> Plain("string"),
                      append |-> Plain("boolean")]]]

HasFieldPresent(parameters, field) ==
  \E i \in 1..Len(parameters) : parameters[i][1] = field

\* field in parameters, and its value neither undefined nor null.
HasField(parameters, field) ==
  \E i \in 1..Len(parameters) :
     /\ parameters[i][1] = field
     /\ parameters[i][2] # "undefined"
     /\ ~(parameters[i][2] = "object" /\ parameters[i][3] = "null")

\* The type check and the enum check of one entry of the parameter object.
TypeMismatch(entry, schema) ==
  LET allowedTypes == {schema.properties[entry[1]].type}
  IN  /\ entry[1] \in DOMAIN schema.properties
      /\ entry[2] \notin allowedTypes
      /\ "null" \notin allowedTypes

EnumMismatch(entry, schema) ==
  /\ entry[1] \in DOMAIN schema.properties
  /\ schema.properties[entry[1]].enum # {}
  /\ entry[3] \notin schema.properties[entry[1]].enum

\* validateParameters: nothing is checked without a required list; else the
\* first required field that is missing, then the first entry whose typeof
\* is not the declared type or whose value is outside the enum.
validateParameters(parameters, schema) ==
  LET required == IF "required" \in DOMAIN schema THEN schema.required ELSE <<>>
      missing == { i \in 1..Len(required) : ~HasField(parameters, required[i]) }
      firstMissing == CHOOSE i \in missing : \A j \in missing : i <= j
      wrong == { i \in 1..Len(parameters) :
                    TypeMismatch(parameters[i], schema) \/ EnumMismatch(parameters[i], schema) }
      firstWrong == CHOOSE i \in wrong : \A j \in wrong : i <= j
  IN  IF "required" \notin DOMAIN schema THEN Absent
      ELSE IF missing # {}
        THEN <<"Missing required field", required[firstMissing]>>
      ELSE IF wrong # {}
        THEN IF TypeMismatch(parameters[firstWrong], schema)
               THEN <<"Invalid type for", parameters[firstWrong][1]>>
               ELSE <<"Invalid value for", parameters[firstWrong][1]>>
      ELSE Absent

\* No ToolResult: executeTool did not return.
NoToolResult == TimedResult(FALSE, Absent, Absent, 0)

\* What the tool's executor does once it is invoked: it resolves with a
\* result or throws an Error.
ExecutorOutcomes == {"ok", "failed", "threw"}

Thrown(outcome, toolName) ==
  IF outcome = "threw"
    THEN [isError |-> TRUE, message |-> <<"exception", toolName>>]
    ELSE [isError |-> FALSE, message |-> Absent]

\* Date.now() - startTime
Elapsed(startTime, endTime) == endTime - startTime

ToolNotFoundRaised(toolName, ms) ==
  [result |-> NoToolResult, invoked |-> FALSE,
   raised |-> [isError |-> TRUE, message |-> <<"Tool not found", toolName>>]]

\* if (!tool) return {success: false, error: `Tool not found: ...`, ...}
ToolNotFound(toolName, ms) ==
  [result |-> TimedResult(FALSE, Absent, <<"Tool not found", toolName>>, ms),
   invoked |-> FALSE, raised |-> Absent]

ExecutorErrorRaised(thrown, ms) ==
  [result |-> NoToolResult, invoked |-> TRUE, raised |-> thrown]

\* catch (error): error instanceof Error ? error.message : 'Unknown error'
ExecutorError(thrown, ms) ==
  [result |-> TimedResult(FALSE, Absent,
                          IF thrown.isError THEN thrown.message
                          ELSE <<"Unknown error", "">>,
                          ms),
   invoked |-> TRUE, raised |-> Absent]

\* executeTool against the registry reg: the ToolResult returned, whether
\* the executor ran, and the exception that reaches the caller, if any.
executeToolIn(reg, toolName, parameters, outcome, startTime, endTime) ==
  LET ms == Elapsed(startTime, endTime)
  IN  IF toolName \notin DOMAIN reg
        THEN ToolNotFound(toolName, ms)
      ELSE LET validationError == validateParameters(parameters, reg[toolName])
           IN  IF validationError # Absent
                 THEN [result |-> TimedResult(FALSE, Absent, validationError, ms),
                       invoked |-> FALSE, raised |-> Absent]
               ELSE CASE outcome = "ok" ->
                           [result |-> TimedResult(TRUE, <<"content of", toolName>>, Absent, ms),
                            invoked |-> TRUE, raised |-> Absent]
                      [] outcome = "failed" ->
                           [result |-> TimedResult(FALSE, Absent, <<"File not found", toolName>>, ms),
                            invoked |-> TRUE, raised |-> Absent]
                      [] OTHER -> ExecutorError(Thrown(outcome, toolName), ms)

\* executeTool as transformStream calls it, against the built-in registry.
executeTool(toolName, parameters, outcome) ==
  executeToolIn(toolRegistry, toolName, parameters, outcome, 0, 0)

\* The executor only has a say when executeTool gets as far as invoking it.
OutcomesFor(toolName, parameters) ==
  IF executeTool(toolName, parameters, "ok").invoked THEN ExecutorOutcomes ELSE {"ok"}

\* JSON.stringify of a ToolResult: absent members are left out.
JSONstringify(r) ==
  IF r.result = Absent /\ r.error = Absent
    THEN [success |-> r.success, executionTimeMs |-> r.executionTimeMs]
  ELSE IF r.error = Absent
    THEN [success |-> r.success, result |-> r.result, executionTimeMs |-> r.executionTimeMs]
  ELSE IF r.result = Absent
    THEN [success |-> r.success, error |-> r.error, executionTimeMs |-> r.executionTimeMs]
  ELSE r

(***************************************************************************)
(* MemoryService (memory.service) and the provider request.                *)
(***************************************************************************)
Take(seq, n) == SubSeq(seq, 1, IF Len(seq) < n THEN Len(seq) ELSE n)

\* getMessages: the first `limit` messages of the session, oldest first.
getMessages(stored, limit) == Take(stored, limit)

\* normalizeMessages: the provider's wire format of one message.
NormalizeMessage(msg) ==
  IF msg.role = "tool"
    THEN [role |-> "tool", content |-> msg.content,
          tool_call_id |-> IF msg.toolCallId = Undefined THEN "" ELSE msg.toolCallId]
  ELSE IF msg.role \in {"assistant", "user"} /\ msg.name \notin {Undefined, ""}
    THEN [role |-> msg.role, content |-> msg.content, name |-> msg.name]
  ELSE IF msg.role \in {"assistant", "user"}
    THEN [role |-> msg.role, content |-> msg.content]
  ELSE [role |-> "system", content |-> msg.content]

normalizeMessages(msgs) == [i \in 1..Len(msgs) |-> NormalizeMessage(msgs[i])]

SystemPrompt == [text |-> "You are AI Assistant"]

UserMessage ==
  [role |-> "user", content |-> [text |-> "hi"], name |-> Undefined, toolCallId |-> Undefined]

(***************************************************************************)
(* The pieces of transformStream.                                          *)
(***************************************************************************)
\* JSON.stringify(value) + '\n' of a chunk: undefined members are left out.
JSONstringifyChoice(choice) ==
  LET d == choice.delta
      keys == { k \in {"role", "content"} : d[k] # Undefined }
                \cup (IF d.toolCalls # <<>> THEN {"toolCalls"} ELSE {})
  IN  [index |-> choice.index,
       delta |-> [k \in keys |-> d[k]],
       finishReason |-> choice.finishReason]

EncodeChunk(chunk) ==
  [ndjson |-> [id |-> chunk.id, object |-> chunk.object,
               choices |-> [i \in 1..Len(chunk.choices) |->
                               JSONstringifyChoice(chunk.choices[i])]]]

\* toolCallsBuffer is a Map: entries in insertion order, one per index.
BufferPosition(buffer, index) ==
  IF \E i \in 1..Len(buffer) : buffer[i].index = index
    THEN CHOOSE i \in 1..Len(buffer) : buffer[i].index = index
    ELSE 0

BufferToolCallReplacing(buffer, tc) ==
  LET kept == SelectSeq(buffer, LAMBDA e : e.index # tc.index)
  IN  Append(kept, [index |-> tc.index, id |-> tc.id, name |-> tc.function.name,
                    arguments |-> tc.function.arguments])

\* toolCallsBuffer.set(tc.index, {...}) for one tool-call delta.
BufferToolCall(buffer, tc) ==
  LET pos == BufferPosition(buffer, tc.index)
      existing == IF pos = 0 THEN [index |-> tc.index, id |-> "", name |-> "", arguments |-> <<>>]
                  ELSE buffer[pos]
      entry == [index |-> tc.index,
                id |-> IF tc.id # "" THEN tc.id ELSE existing.id,
                name |-> IF tc.function.name # "" THEN tc.function.name ELSE existing.name,
                arguments |-> existing.arguments \o tc.function.arguments]
  IN  IF pos = 0 THEN Append(buffer, entry) ELSE [buffer EXCEPT ![pos] = entry]

RECURSIVE BufferToolCalls(_, _)
BufferToolCalls(buffer, toolCalls) ==
  IF toolCalls = <<>> THEN buffer
  ELSE BufferToolCalls(BufferToolCall(buffer, Head(toolCalls)), Tail(toolCalls))

\* The synchronous part of `for (const choice of value.choices)` from choice
\* j on: it stops at the first choice that starts the tool loop.
RECURSIVE ScanChoices(_, _, _, _)
ScanChoices(buffer, finished, choices, j) ==
  IF j > Len(choices) THEN [buffer |-> buffer, finished |-> finished, stop |-> 0]
  ELSE LET choice == choices[j]
           buffered == BufferToolCalls(buffer, choice.delta.toolCalls)
       IN  IF choice.finishReason = "tool_calls" /\ Len(buffered) > 0
             THEN [buffer |-> buffered, finished |-> TRUE, stop |-> j]
             ELSE ScanChoices(buffered, finished \/ choice.finishReason # Null, choices, j + 1)

\* toolResultMessage as a slip would build it: without the call id.
toolResultMessageWithoutId(toolCall, toolResult) ==
  [role |-> "tool", content |-> JSONstringify(toolResult),
   toolCallId |-> "", name |-> toolCall.name]

\* The tool-role message built from a tool call and its result.
toolResultMessage(toolCall, toolResult) ==
  [role |-> "tool", content |-> JSONstringify(toolResult),
   toolCallId |-> toolCall.id, name |-> toolCall.name]

toolResultChunk ==
  [id |-> <<"tool", 0>>, object |-> "chat.completion.chunk",
   choices |-> << [index |-> 0,
                   delta |-> [role |-> "assistant", content |-> Null, toolCalls |-> <<>>],
                   finishReason |-> Null] >>]

\* An enqueue that would put the item ahead of the queued ones.
EnqueueAhead(queue, item) == <<item>> \o queue

\* controller.enqueue(item): the queue afterwards (it throws unless the
\* stream is readable).
Enqueue(queue, item) == Append(queue, item)

\* A catch block that would close the stream instead of erroring it.
ControllerErrorAsClose(state) == IF state = "readable" THEN "closed" ELSE state

\* controller.error(e) and controller.close() on a stream in `state`.
ControllerError(state) == IF state = "readable" THEN "errored" ELSE state

ControllerClose(state) == IF state = "readable" THEN "closed" ELSE state

(***************************************************************************)
(* State of one exchange.                                                  *)
(***************************************************************************)
VARIABLES
  pc,               \* where start() stands: read, exec, save, getMessages,
                    \* getSession, create, or returned
  provided,         \* the chunks reader.read() has delivered so far
  providerEnd,      \* "open", or how reading ended: "done" / "failed"
  hasFinishReason,
  toolCallsBuffer,
  value,            \* the chunk whose choices are being processed
  choiceIdx,        \* the choice of `value` whose tool loop is running
  toolIdx,          \* position of the tool loop in toolCallsBuffer
  result,           \* the ToolResult of the running iteration
  fetched,          \* what getMessages returned in the running iteration
  enqueued,         \* everything enqueued on the caller-facing stream
  controller,       \* caller-facing stream: readable, closed or errored
  cancelledAt,      \* "never", or where start() stood when the caller cancelled
  executions,       \* the calls of toolService.executeTool, in order
  saves,            \* the calls of memoryService.saveMessage, in order
  messages,         \* the session's stored messages, oldest first
  updatedAt,        \* how often the session's updatedAt was bumped
  completions,      \* the follow-up completion calls sent to the provider
  errorLog,         \* logger.error('Tool execution failed') entries
  faults            \* store / provider calls that have failed

\* State of processChat, which opens the exchange.
VARIABLES
  chatRequest,      \* the ChatRequest processChat was called with
  chatSession,      \* what memoryService.getSession returned to processChat
  chatResult,       \* how processChat ended: a stream, or the error it rejects with
  initialCalls      \* the completion calls processChat sent to the provider

streamVars == <<pc, provided, providerEnd, hasFinishReason, toolCallsBuffer, value,
                choiceIdx, toolIdx, result, fetched, enqueued, controller,
                cancelledAt, executions, saves, messages, updatedAt, completions,
                errorLog, faults>>

\* State of the tool service.
VARIABLES
  registered,       \* what registerTool has set: name -> parameter schema
  lastCall          \* the last executeTool call and how it ended

\* State of the OpenAI client wrapper.
VARIABLES
  handled           \* the last error handleOpenAIError was given, and its result

\* State of the middleware.
VARIABLES
  rateLimitStore,   \* client key -> [count, resetTime]
  now,              \* the last reading of Date.now()
  lastRequest,      \* the last request the middleware was given
  lastResponse,     \* what the middleware answered it with
  windowLog         \* per client key: when its window opened, requests let through since

\* State of createChatCompletion.
VARIABLES
  completionCall    \* the last createChatCompletion call and how it ended

\* State of the chat page while it reads one response.
VARIABLES
  pagePc,           \* where handleSendMessage stands: idle, reading, done
  pageLines,        \* the content deltas of the lines the server wrote
  pageBody,         \* the part of the response text no read() has returned yet
  assistantContent  \* the assistant message built so far

\* State of the messages route.
VARIABLES
  routeCall         \* the last GET /api/messages and how it was answered

\* State of the metrics recorder.
VARIABLES
  latencies,        \* name -> the latencies recorded under it, oldest first
  percentileCall    \* the last getLatencyPercentile call and what it returned

chatVars == <<chatRequest, chatSession, chatResult, initialCalls>>

toolVars == <<registered, lastCall>>

errorVars == <<handled>>

middlewareVars == <<rateLimitStore, now, lastRequest, lastResponse, windowLog>>

restVars == <<completionCall, pagePc, pageLines, pageBody, assistantContent, routeCall,
              latencies, percentileCall>>

\* What a step of transformStream leaves alone.
besideStream == <<chatVars, toolVars, errorVars, middlewareVars, restVars>>

\* What a step of processChat leaves alone.
besideChat == <<toolVars, errorVars, middlewareVars, restVars>>

vars == <<streamVars, chatVars, toolVars, errorVars, middlewareVars, restVars>>

NoChunk == Chunk(<<"none", 0>>, <<>>)
NoResult == ToolResult(FALSE, Absent, Absent)

\* The exchange state transformStream starts from, but for pc and controller.
StreamStart ==
  /\ provided = <<>>
  /\ providerEnd = "open"
  /\ hasFinishReason = FALSE
  /\ toolCallsBuffer = <<>>
  /\ value = NoChunk
  /\ choiceIdx = 0
  /\ toolIdx = 0
  /\ result = NoResult
  /\ fetched = <<>>
  /\ enqueued = <<>>
  /\ cancelledAt = "never"
  /\ executions = <<>>
  /\ saves = <<>>
  /\ messages = <<UserMessage>>
  /\ updatedAt = 0
  /\ completions = <<>>
  /\ errorLog = <<>>
  /\ faults = 0

\* processChat is not part of the run: the stream is handed over as it is.
ChatIdle ==
  /\ chatRequest = [systemPrompt |-> Undefined]
  /\ chatSession = [id |-> "unset", systemPrompt |-> Undefined]
  /\ chatResult = [kind |-> "stream"]
  /\ initialCalls = <<>>

\* The tool service holds the built-in tools and has not been called.
ToolsIdle ==
  /\ registered = <<>>
  /\ lastCall = [toolName |-> Null]

\* No error has been handled.
ErrorsIdle == handled = [error |-> [class |-> "none"]]

\* createChatCompletion, the chat page, the messages route and the metrics
\* recorder have done nothing yet.
RestIdle ==
  /\ completionCall = [outcome |-> "none"]
  /\ pagePc = "idle"
  /\ pageLines = <<>>
  /\ pageBody = <<>>
  /\ assistantContent = <<>>
  /\ routeCall = [outcome |-> "none"]
  /\ latencies = <<>>
  /\ percentileCall = [name |-> "none"]

\* The middleware has seen no request.
NoResponse == [status |-> 0]

MiddlewareIdle ==
  /\ rateLimitStore = <<>>
  /\ now = 0
  /\ lastRequest = [method |-> "none"]
  /\ lastResponse = NoResponse
  /\ windowLog = <<>>

Init ==
  /\ pc = "read"
  /\ controller = "readable"
  /\ StreamStart
  /\ ChatIdle
  /\ ToolsIdle
  /\ ErrorsIdle
  /\ MiddlewareIdle
  /\ RestIdle

\* The choices of chunk v from choice j on, then
\* controller.enqueue(encoder.encode(JSON.stringify(value) + '\n')).
\* An enqueue on a stream that is no longer readable throws; the outer catch
\* calls controller.error, which does nothing on such a stream.
RunChoices(v, j, buffer, queue) ==
  LET scan == ScanChoices(buffer, hasFinishReason, v.choices, j)
  IN  /\ toolCallsBuffer' = scan.buffer
      /\ hasFinishReason' = scan.finished
      /\ value' = v
      /\ IF scan.stop > 0
           THEN /\ pc' = "exec"
                /\ choiceIdx' = scan.stop
                /\ toolIdx' = 1
                /\ enqueued' = queue
                /\ controller' = controller
           ELSE /\ choiceIdx' = 0
                /\ toolIdx' = 0
                /\ IF controller = "readable"
                     THEN /\ enqueued' = Enqueue(queue, EncodeChunk(v))
                          /\ controller' = controller
                          /\ pc' = IF scan.finished THEN "returned" ELSE "read"
                     ELSE /\ enqueued' = queue
                          /\ controller' = ControllerError(controller)
                          /\ pc' = "returned"

\* The end of one iteration of `for (const [, toolCall] of toolCallsBuffer)`:
\* the next tool call, or the rest of the choices and the final enqueue.
NextIteration(queue) ==
  IF toolIdx < Len(toolCallsBuffer)
    THEN /\ pc' = "exec"
         /\ toolIdx' = toolIdx + 1
         /\ enqueued' = queue
         /\ UNCHANGED <<toolCallsBuffer, hasFinishReason, value, choiceIdx, controller>>
    ELSE RunChoices(value, choiceIdx + 1, toolCallsBuffer, queue)

\* The inner catch: log and go on with the next tool call.
CatchToolError(kind) ==
  /\ errorLog' = Append(errorLog, [toolName |-> toolCallsBuffer[toolIdx].name, error |-> kind])
  /\ NextIteration(enqueued)

\* const { done, value } = await reader.read()  with a chunk.
ReadChunk(v) ==
  /\ pc = "read"
  /\ Len(provided) < MaxChunks
  /\ provided' = Append(provided, v)
  /\ RunChoices(v, 1, toolCallsBuffer, enqueued)
  /\ UNCHANGED <<providerEnd, result, fetched, cancelledAt, executions, saves,
                 messages, updatedAt, completions, errorLog, faults>>
  /\ UNCHANGED besideStream

\* reader.read() reports done: controller.close(); return.
ReadDone ==
  /\ pc = "read"
  /\ providerEnd' = "done"
  /\ controller' = ControllerClose(controller)
  /\ pc' = "returned"
  /\ UNCHANGED <<provided, hasFinishReason, toolCallsBuffer, value, choiceIdx,
                 toolIdx, result, fetched, enqueued, cancelledAt, executions, saves,
                 messages, updatedAt, completions, errorLog, faults>>
  /\ UNCHANGED besideStream

\* reader.read() rejects: the outer catch calls controller.error(error).
ReadError ==
  /\ pc = "read"
  /\ providerEnd' = "failed"
  /\ controller' = ControllerError(controller)
  /\ pc' = "returned"
  /\ UNCHANGED <<provided, hasFinishReason, toolCallsBuffer, value, choiceIdx,
                 toolIdx, result, fetched, enqueued, cancelledAt, executions, saves,
                 messages, updatedAt, completions, errorLog, faults>>
  /\ UNCHANGED besideStream

\* JSON.parse(toolCall.arguments) throws: executeTool is not called.
ParseFailure ==
  /\ pc = "exec"
  /\ ~JSONparse(toolCallsBuffer[toolIdx].arguments).ok
  /\ CatchToolError("SyntaxError")
  /\ UNCHANGED <<provided, providerEnd, result, fetched, cancelledAt, executions, saves,
                 messages, updatedAt, completions, faults>>
  /\ UNCHANGED besideStream

\* await toolService.executeTool(toolCall.name, JSON.parse(toolCall.arguments))
ExecuteTool(outcome) ==
  /\ pc = "exec"
  /\ LET toolCall == toolCallsBuffer[toolIdx]
         parsed == JSONparse(toolCall.arguments)
         run == executeTool(toolCall.name, parsed.value, outcome)
     IN  /\ parsed.ok
         /\ outcome \in OutcomesFor(toolCall.name, parsed.value)
         /\ executions' = Append(executions,
                                 [toolName |-> toolCall.name, parameters |-> parsed.value,
                                  result |-> run.result, invoked |-> run.invoked,
                                  fragment |-> toolCall.index])
         /\ result' = run.result
  /\ pc' = "save"
  /\ UNCHANGED <<provided, providerEnd, hasFinishReason, toolCallsBuffer, value,
                 choiceIdx, toolIdx, fetched, enqueued, controller, cancelledAt,
                 saves, messages, updatedAt, completions, errorLog, faults>>
  /\ UNCHANGED besideStream

\* A call of saveMessage for the running iteration, as the log keeps it.
SaveCall(message, stored, returned) ==
  [message |-> message, execution |-> Len(executions),
   stored |-> stored, returned |-> returned]

\* await memoryService.saveMessage(sessionId, toolResultMessage)
SaveMessage ==
  /\ pc = "save"
  /\ LET message == toolResultMessage(toolCallsBuffer[toolIdx], result)
     IN  /\ messages' = Append(messages, message)
         /\ saves' = Append(saves, SaveCall(message, TRUE, TRUE))
  /\ updatedAt' = updatedAt + 1
  /\ pc' = "getMessages"
  /\ UNCHANGED <<provided, providerEnd, hasFinishReason, toolCallsBuffer, value,
                 choiceIdx, toolIdx, result, fetched, enqueued, controller,
                 cancelledAt, executions, completions, errorLog, faults>>
  /\ UNCHANGED besideStream

\* saveMessage throws 'Failed to save message': prisma.message.create failed
\* (created = FALSE), or it succeeded and prisma.session.update failed.
SaveMessageFails(created) ==
  /\ pc = "save"
  /\ faults < MaxFaults
  /\ faults' = faults + 1
  /\ LET message == toolResultMessage(toolCallsBuffer[toolIdx], result)
     IN  /\ messages' = IF created THEN Append(messages, message) ELSE messages
         /\ saves' = Append(saves, SaveCall(message, created, FALSE))
  /\ CatchToolError("Failed to save message")
  /\ UNCHANGED <<provided, providerEnd, result, fetched, cancelledAt, executions,
                 updatedAt, completions>>
  /\ UNCHANGED besideStream

\* const messages = await memoryService.getMessages(sessionId)
GetMessages ==
  /\ pc = "getMessages"
  /\ fetched' = getMessages(messages, DefaultLimit)
  /\ pc' = "getSession"
  /\ UNCHANGED <<provided, providerEnd, hasFinishReason, toolCallsBuffer, value,
                 choiceIdx, toolIdx, result, enqueued, controller, cancelledAt,
                 executions, saves, messages, updatedAt, completions, errorLog, faults>>
  /\ UNCHANGED besideStream

GetMessagesFails ==
  /\ pc = "getMessages"
  /\ faults < MaxFaults
  /\ faults' = faults + 1
  /\ CatchToolError("Failed to get messages")
  /\ UNCHANGED <<provided, providerEnd, result, fetched, cancelledAt, executions, saves,
                 messages, updatedAt, completions>>
  /\ UNCHANGED besideStream

\* const session = await memoryService.getSession(sessionId)
GetSession ==
  /\ pc = "getSession"
  /\ pc' = "create"
  /\ UNCHANGED <<provided, providerEnd, hasFinishReason, toolCallsBuffer, value,
                 choiceIdx, toolIdx, result, fetched, enqueued, controller,
                 cancelledAt, executions, saves, messages, updatedAt, completions,
                 errorLog, faults>>
  /\ UNCHANGED besideStream

GetSessionFails ==
  /\ pc = "getSession"
  /\ faults < MaxFaults
  /\ faults' = faults + 1
  /\ CatchToolError("Failed to get session")
  /\ UNCHANGED <<provided, providerEnd, result, fetched, cancelledAt, executions, saves,
                 messages, updatedAt, completions>>
  /\ UNCHANGED besideStream

\* The request of the follow-up completion.
ContinuationRequest(history) ==
  [model |-> "gpt-4-turbo-preview",
   messages |-> normalizeMessages(<<[role |-> "system", content |-> SystemPrompt]>> \o history),
   stream |-> TRUE]

\* await openai.chat.completions.create({...}) resolves (its stream is not
\* kept), then the tool result chunk is enqueued; an enqueue on a stream
\* that is no longer readable throws into the inner catch.
CreateCompletion ==
  /\ pc = "create"
  /\ completions' = Append(completions,
                           [request |-> ContinuationRequest(fetched),
                            ok |-> TRUE,
                            response |-> ContinuationStream(Len(completions) + 1)])
  /\ IF controller = "readable"
       THEN /\ NextIteration(Enqueue(enqueued, EncodeChunk(toolResultChunk)))
            /\ errorLog' = errorLog
       ELSE CatchToolError("TypeError")
  /\ UNCHANGED <<provided, providerEnd, result, fetched, cancelledAt, executions, saves,
                 messages, updatedAt, faults>>
  /\ UNCHANGED besideStream

\* The follow-up completion call fails.
CreateCompletionFails ==
  /\ pc = "create"
  /\ faults < MaxFaults
  /\ faults' = faults + 1
  /\ completions' = Append(completions,
                           [request |-> ContinuationRequest(fetched),
                            ok |-> FALSE,
                            response |-> <<>>])
  /\ CatchToolError("APIError")
  /\ UNCHANGED <<provided, providerEnd, result, fetched, cancelledAt, executions, saves,
                 messages, updatedAt>>
  /\ UNCHANGED besideStream

\* The caller cancels the caller-facing stream: it becomes closed; the
\* stream's source has no cancel(), so start() keeps running.
Cancel ==
  /\ controller = "readable"
  /\ controller' = "closed"
  /\ cancelledAt' = pc
  /\ UNCHANGED <<pc, provided, providerEnd, hasFinishReason, toolCallsBuffer,
                 value, choiceIdx, toolIdx, result, fetched, enqueued,
                 executions, saves, messages, updatedAt, completions, errorLog, faults>>
  /\ UNCHANGED besideStream

Next ==
  \/ \E v \in ProviderChunks : ReadChunk(v)
  \/ ReadDone
  \/ ReadError
  \/ ParseFailure
  \/ \E outcome \in ExecutorOutcomes : ExecuteTool(outcome)
  \/ SaveMessage
  \/ \E created \in BOOLEAN : SaveMessageFails(created)
  \/ GetMessages
  \/ GetMessagesFails
  \/ GetSession
  \/ GetSessionFails
  \/ CreateCompletion
  \/ CreateCompletionFails
  \/ Cancel

Spec == Init /\ [][Next]_vars

\* Every step but the caller's cancel: the awaited read, tool, store and
\* provider calls of start().
StreamStep ==
  \/ \E v \in ProviderChunks : ReadChunk(v)
  \/ ReadDone
  \/ ReadError
  \/ ParseFailure
  \/ \E outcome \in ExecutorOutcomes : ExecuteTool(outcome)
  \/ SaveMessage
  \/ \E created \in BOOLEAN : SaveMessageFails(created)
  \/ GetMessages
  \/ GetMessagesFails
  \/ GetSession
  \/ GetSessionFails
  \/ CreateCompletion
  \/ CreateCompletionFails

\* The exchange when every awaited call returns: start() goes on as long as
\* it has a step to take; the caller cancels or not, as it likes.
SpecLive == Init /\ [][Next]_vars /\ WF_vars(StreamStep)

(***************************************************************************)
(* A tool turn in a session that already holds a history: the messages of *)
(* earlier turns, then the user message of this one.                       *)
(***************************************************************************)
MaxOver == 1

EarlierMessage(i) ==
  [role |-> IF i % 2 = 1 THEN "user" ELSE "assistant",
   content |-> [earlier |-> i], name |-> Undefined, toolCallId |-> Undefined]

\* The provider chunks of a tool turn: one whole tool call, then the
\* tool_calls finish reason.
HistoryChunks ==
  { v \in ProviderChunks :
      /\ Len(v.choices) = 1
      /\ \/ v.choices[1].finishReason = "tool_calls"
         \/ /\ Len(v.choices[1].delta.toolCalls) = 1
            /\ v.choices[1].delta.toolCalls[1].index = 0
            /\ v.choices[1].delta.toolCalls[1].function.name = "file_read"
            /\ v.choices[1].delta.toolCalls[1].function.arguments
                 = <<LBrace, PathMember, RBrace>> }

InitHistory ==
  /\ pc = "read"
  /\ controller = "readable"
  /\ provided = <<>>
  /\ providerEnd = "open"
  /\ hasFinishReason = FALSE
  /\ toolCallsBuffer = <<>>
  /\ value = NoChunk
  /\ choiceIdx = 0
  /\ toolIdx = 0
  /\ result = NoResult
  /\ fetched = <<>>
  /\ enqueued = <<>>
  /\ cancelledAt = "never"
  /\ executions = <<>>
  /\ saves = <<>>
  /\ \E n \in {1} \cup ((DefaultLimit - 1)..(DefaultLimit + MaxOver)) :
        messages = [i \in 1..(n - 1) |-> EarlierMessage(i)] \o <<UserMessage>>
  /\ updatedAt = 0
  /\ completions = <<>>
  /\ errorLog = <<>>
  /\ faults = 0
  /\ ChatIdle
  /\ ToolsIdle
  /\ ErrorsIdle
  /\ MiddlewareIdle
  /\ RestIdle

NextHistory ==
  \/ \E v \in HistoryChunks : ReadChunk(v)
  \/ ReadDone
  \/ ReadError
  \/ ParseFailure
  \/ \E outcome \in ExecutorOutcomes : ExecuteTool(outcome)
  \/ SaveMessage
  \/ \E created \in BOOLEAN : SaveMessageFails(created)
  \/ GetMessages
  \/ GetMessagesFails
  \/ GetSession
  \/ GetSessionFails
  \/ CreateCompletion
  \/ CreateCompletionFails
  \/ Cancel

SpecHistory == InitHistory /\ [][NextHistory]_vars

(***************************************************************************)
(* processChat: the session lookup and the initial completion call that    *)
(* come before transformStream.                                            *)
(***************************************************************************)

\* What a call of the OpenAI client can fail with.
OpenAIAPIError(status) == [class |-> "OpenAI.APIError", status |-> status]
ProviderFailures ==
  {OpenAIAPIError(429), OpenAIAPIError(500), [class |-> "OpenAI.APIConnectionError"]}

APIError(code, message, status, originalError) ==
  [class |-> "APIError", code |-> code, message |-> message, status |-> status,
   originalError |-> originalError]

ChatRejectionRaw(error) == error

\* throw error instanceof APIError ? error : new APIError('CHAT_ERROR', ...)
ChatRejection(error) ==
  IF error.class = "APIError"
    THEN error
    ELSE APIError("CHAT_ERROR", "Failed to process chat", Null, error)

SessionMissingNever(session) == FALSE

\* if (!session)
SessionMissing(session) == session.id = Null

\* a || b on strings: b when a is undefined or empty.
OrElse(a, b) == IF a \in {Undefined, ""} THEN b ELSE a

\* The request processChat sends: the system prompt, then request.messages.
InitialRequest(request, session) ==
  [model |-> "gpt-4-turbo-preview",
   messages |-> normalizeMessages(
      <<[role |-> "system",
         content |-> [text |-> OrElse(request.systemPrompt,
                                      OrElse(session.systemPrompt, SystemPrompt.text))]]>>
      \o <<UserMessage>>),
   stream |-> TRUE]

\* processChat has been called and has not yet awaited anything.
InitChat ==
  /\ pc = "processChat"
  /\ controller = "none"
  /\ StreamStart
  /\ chatRequest \in { [systemPrompt |-> "given"] }
  /\ chatSession = [id |-> "unset", systemPrompt |-> Undefined]
  /\ chatResult = [kind |-> "pending"]
  /\ initialCalls = <<>>
  /\ ToolsIdle
  /\ ErrorsIdle
  /\ MiddlewareIdle
  /\ RestIdle

Reject(error) ==
  /\ pc' = "rejected"
  /\ chatResult' = [kind |-> "rejected", error |-> ChatRejection(error)]

\* await memoryService.getSession(request.sessionId) resolves; a missing
\* session is thrown into the catch, and so is reading systemPrompt of null.
ChatGetSession(session) ==
  /\ pc = "processChat"
  /\ chatSession' = session
  /\ IF SessionMissing(session)
       THEN Reject([class |-> "Error", message |-> <<"Session not found: ", "s1">>])
       ELSE IF session.id = Null /\ chatRequest.systemPrompt \in {Undefined, ""}
         THEN Reject([class |-> "TypeError"])
         ELSE /\ pc' = "initialCreate"
              /\ chatResult' = chatResult
  /\ UNCHANGED <<provided, providerEnd, hasFinishReason, toolCallsBuffer, value,
                 choiceIdx, toolIdx, result, fetched, enqueued, controller,
                 cancelledAt, executions, saves, messages, updatedAt, completions,
                 errorLog, faults, chatRequest, initialCalls>>
  /\ UNCHANGED besideChat

\* memoryService.getSession throws 'Failed to get session'.
ChatGetSessionFails ==
  /\ pc = "processChat"
  /\ chatSession' = [id |-> "threw", systemPrompt |-> Undefined]
  /\ Reject([class |-> "Error", message |-> <<"Failed to get session", "">>])
  /\ UNCHANGED <<provided, providerEnd, hasFinishReason, toolCallsBuffer, value,
                 choiceIdx, toolIdx, result, fetched, enqueued, controller,
                 cancelledAt, executions, saves, messages, updatedAt, completions,
                 errorLog, faults, chatRequest, initialCalls>>
  /\ UNCHANGED besideChat

\* await openai.chat.completions.create({...}) resolves and transformStream
\* wraps the provider's stream: start() runs from here on.
ChatCreate ==
  /\ pc = "initialCreate"
  /\ initialCalls' = Append(initialCalls,
        [request |-> InitialRequest(chatRequest, chatSession),
         ok |-> TRUE])
  /\ pc' = "read"
  /\ controller' = "readable"
  /\ chatResult' = [kind |-> "stream"]
  /\ UNCHANGED <<provided, providerEnd, hasFinishReason, toolCallsBuffer, value,
                 choiceIdx, toolIdx, result, fetched, enqueued,
                 cancelledAt, executions, saves, messages, updatedAt, completions,
                 errorLog, faults, chatRequest, chatSession>>
  /\ UNCHANGED besideChat

\* The initial completion call fails: transformStream is never reached.
ChatCreateFails(error) ==
  /\ pc = "initialCreate"
  /\ initialCalls' = Append(initialCalls,
        [request |-> InitialRequest(chatRequest, chatSession),
         ok |-> FALSE])
  /\ Reject(error)
  /\ UNCHANGED <<provided, providerEnd, hasFinishReason, toolCallsBuffer, value,
                 choiceIdx, toolIdx, result, fetched, enqueued, controller,
                 cancelledAt, executions, saves, messages, updatedAt, completions,
                 errorLog, faults, chatRequest, chatSession>>
  /\ UNCHANGED besideChat

NextChat ==
  \* the session row getSession returns: null, or a row
  \/ \E session \in {[id |-> Null, systemPrompt |-> Undefined],
                      [id |-> "s1", systemPrompt |-> Undefined]} :
        ChatGetSession(session)
  \/ ChatGetSessionFails
  \/ ChatCreate
  \/ \E error \in ProviderFailures : ChatCreateFails(error)
  \/ Next

SpecChat == InitChat /\ [][NextChat]_vars

(***************************************************************************)
(* ToolService on its own: registerTool and executeTool calls against the  *)
(* registry.  A parameter object is the sequence of its entries            *)
(* <<field, typeof value, value>>; numbers are written as strings.         *)
(***************************************************************************)
MaxElapsed == 1     \* most milliseconds that pass during one executeTool call

\* No exchange is running.
StreamIdle ==
  /\ pc = "idle"
  /\ controller = "none"
  /\ StreamStart

\* The definitions registerTool is called with: a tool without a required
\* list, and one whose required order is not alphabetical.
Registrations ==
  { <<"custom", [properties |-> [flag |-> Plain("boolean")]]>>,
    <<"custom", [required |-> <<"b", "a">>,
                 properties |-> [a |-> Plain("string"), b |-> Plain("string")]]>> }

PathX == <<"path", "string", "x">>
ContentC == <<"content", "string", "c">>

ParameterObjects ==
  { <<>>,
    <<PathX>>,
    << <<"path", "undefined", "undefined">> >>,
    << <<"path", "object", "null">> >>,
    << <<"path", "number", "1">> >>,
    <<PathX, <<"maxLines", "number", "10">> >>,
    <<PathX, <<"maxLines", "number", "1.5">> >>,
    <<PathX, <<"maxLines", "string", "10">> >>,
    <<PathX, <<"encoding", "string", "utf-8">> >>,
    <<PathX, <<"encoding", "string", "latin1">> >>,
    <<PathX, <<"encoding", "object", "null">> >>,
    <<PathX, <<"extra", "number", "1">> >>,
    <<ContentC>>,
    <<PathX, ContentC>>,
    <<PathX, ContentC, <<"append", "boolean", "true">> >>,
    <<PathX, ContentC, <<"append", "string", "true">> >>,
    << <<"a", "string", "x">> >>,
    << <<"a", "string", "x">>, <<"b", "string", "y">> >>,
    << <<"flag", "string", "yes">> >> }

\* Nothing is running: no exchange, no call, no request.
InitIdle ==
  /\ StreamIdle
  /\ ChatIdle
  /\ ToolsIdle
  /\ ErrorsIdle
  /\ MiddlewareIdle
  /\ RestIdle

\* The toolRegistry map: the built-in tools, and over them what
\* registerTool has set.
Registry ==
  [n \in DOMAIN toolRegistry \cup DOMAIN registered |->
     IF n \in DOMAIN registered THEN registered[n] ELSE toolRegistry[n]]

\* toolRegistry.set(name, {execute, definition})
RegisterTool(name, definition) ==
  /\ registered' = [n \in DOMAIN registered \cup {name} |->
                       IF n = name THEN definition ELSE registered[n]]
  /\ UNCHANGED <<lastCall, streamVars, chatVars, errorVars, middlewareVars, restVars>>

\* One call of executeTool, from its first Date.now() to its return.
ExecuteToolCall(toolName, parameters, outcome, startTime, endTime) ==
  LET run == executeToolIn(Registry, toolName, parameters, outcome, startTime, endTime)
  IN  /\ run.invoked \/ outcome = "ok"
      /\ lastCall' = [toolName |-> toolName, parameters |-> parameters,
                      registry |-> Registry,
                      outcome |-> IF run.invoked THEN outcome ELSE "none",
                      result |-> run.result, invoked |-> run.invoked,
                      raised |-> run.raised]
      /\ UNCHANGED <<registered, streamVars, chatVars, errorVars, middlewareVars, restVars>>

NextTools ==
  \/ \E r \in Registrations : RegisterTool(r[1], r[2])
  \* an executor may also throw a value that is not an Error
  \/ \E toolName \in {"file_read", "file_write", "custom", "nonexistent_tool"},
        parameters \in ParameterObjects,
        outcome \in ExecutorOutcomes \cup {"threwValue"},
        endTime \in 1..(1 + MaxElapsed) :
           ExecuteToolCall(toolName, parameters, outcome, 1, endTime)

SpecTools == InitIdle /\ [][NextTools]_vars

(***************************************************************************)
(* handleOpenAIError: the provider's error turned into an APIError.  Only  *)
(* errors whose class the function names itself are given to it; what the  *)
(* SDK's classes inherit from each other is not in this repository.        *)
(***************************************************************************)
MinStatus == 100    \* smallest HTTP status a provider error carries
MaxStatus == 599    \* largest HTTP status a provider error carries

HandledErrors ==
  { [class |-> "OpenAI.APIError", status |-> st, message |-> m] :
       st \in (MinStatus..MaxStatus), m \in {"", "boom"} }
  \cup { [class |-> "Error", message |-> "boom"] }

\* const errorCodes: Record<number, {code, message}>
errorCodes(error) ==
  [s \in {400, 401, 403, 404, 429, 500, 503} |->
     CASE s = 400 -> [code |-> "BAD_REQUEST",
                      message |-> OrElse(error.message, "Invalid request to OpenAI API")]
       [] s = 401 -> [code |-> "UNAUTHORIZED",
                      message |-> "Invalid API key or authentication failure"]
       [] s = 403 -> [code |-> "FORBIDDEN",
                      message |-> "Access to this resource is forbidden"]
       [] s = 404 -> [code |-> "NOT_FOUND",
                      message |-> "The requested resource was not found"]
       [] s = 429 -> [code |-> "RATE_LIMITED",
                      message |-> "Rate limit exceeded. Please retry later"]
       [] s = 500 -> [code |-> "INTERNAL_ERROR",
                      message |-> "OpenAI internal server error"]
       [] s = 503 -> [code |-> "SERVICE_UNAVAILABLE",
                      message |-> "OpenAI service is temporarily unavailable"]]

handleOpenAIError(error) ==
  CASE error.class = "OpenAI.APIError" ->
         LET errorInfo ==
               IF error.status \in DOMAIN errorCodes(error)
                 THEN errorCodes(error)[error.status]
                 ELSE [code |-> "UNKNOWN_ERROR",
                       message |-> OrElse(error.message, "An unknown error occurred")]
         IN  APIError(errorInfo.code, errorInfo.message, error.status, error)
    [] error.class = "OpenAI.RateLimitError" ->
         APIError("RATE_LIMITED", "Rate limit exceeded. Please retry later", 429, error)
    [] error.class = "OpenAI.APIConnectionError" ->
         APIError("CONNECTION_ERROR", "Failed to connect to OpenAI API", Null, error)
    [] error.class = "OpenAI.APIConnectionTimeoutError" ->
         APIError("TIMEOUT", "Request to OpenAI API timed out", Null, error)
    [] OTHER ->
         APIError("INTERNAL_ERROR", "An unexpected error occurred", Null, error)

\* One call of handleOpenAIError.
HandleError(error) ==
  /\ handled' = [error |-> error, apiError |-> handleOpenAIError(error)]
  /\ UNCHANGED <<streamVars, chatVars, toolVars, middlewareVars, restVars>>

NextErrors == \E error \in HandledErrors : HandleError(error)

SpecErrors == InitIdle /\ [][NextErrors]_vars

(***************************************************************************)
(* middleware: CORS preflight, rate limiting, authentication.  A path is   *)
(* the sequence of its prefix and what follows it, so that startsWith is a *)
(* comparison of the first element.                                        *)
(***************************************************************************)
MaxLight == 2           \* requests per window of the client that stays under the limit
MaxAuthRequests == 2    \* requests per window in an authentication run

windowMs == 60000
maxRequests == 100
CleanupSize == 10000

protectedPaths == {"/api/sessions", "/api/messages"}
publicPaths == {"/api/health", "/api/tools", "/api/docs"}

StartsWith(path, prefix) == path[1] = prefix

\* Readings of Date.now(), in milliseconds.
Instants == {0, 59999, 60000, 119999}

NextRequest(method, path, forwardedFor, authorization, apiKey) ==
  [method |-> method, path |-> path, forwardedFor |-> forwardedFor,
   authorization |-> authorization, apiKey |-> apiKey]

\* Requests of an authentication run: every kind of path with every kind of
\* credentials.
AuthRequests ==
  { NextRequest(m, p, Undefined, a, k) :
      m \in {"GET", "OPTIONS"},
      p \in { <<"/api/chat">>, <<"/api/tools">>, <<"/api/health">>,
              <<"/api/sessions">>, <<"/api/sessions", "/s1">>, <<"/api/messages">> },
      a \in {Undefined, "Bearer signed", "Bearer forged", "Basic abc"},
      k \in {Undefined, "key"} }

\* Requests of a rate-limit run: two clients, one of them without the
\* x-forwarded-for header.
RateLimitRequests ==
  { NextRequest(m, <<"/api/health">>, f, Undefined, Undefined) :
      m \in {"GET", "OPTIONS"}, f \in {Undefined, "10.0.0.1"} }

IsBearer(authorization) == authorization \in {"Bearer signed", "Bearer forged"}

\* verifyToken(authHeader.slice(7)): the payload, or null when jwtVerify throws.
verifyToken(authorization) ==
  IF authorization = "Bearer signed"
    THEN [sub |-> "u1", email |-> "u1@example.org", role |-> "user"]
    ELSE [sub |-> Null]

Preflight == [status |-> 204, kind |-> "preflight"]
PassOn(userId) == [status |-> 200, kind |-> "next", userId |-> userId]
Json(status, code) == [status |-> status, kind |-> "json", code |-> code]

\* Math.ceil(a / b) for a >= 0
Ceil(a, b) == (a + b - 1) \div b

RateLimited(record, t) ==
  [status |-> 429, kind |-> "json", code |-> "RATE_LIMITED",
   retryAfter |-> Ceil(record.resetTime - t, 1000),
   limit |-> maxRequests, remaining |-> 0,
   reset |-> Ceil(record.resetTime, 1000)]

\* rateLimitStore.set(ip, record)
StoreSet(store, ip, record) ==
  [k \in DOMAIN store \cup {ip} |-> IF k = ip THEN record ELSE store[k]]

\* Cleanup old entries once the store holds more than 10000 keys.
Cleanup(store, t) ==
  IF Cardinality(DOMAIN store) > CleanupSize
    THEN [k \in { key \in DOMAIN store : ~(store[key].resetTime < t) } |-> store[k]]
    ELSE store

WindowFullAbove(record) == record.count > maxRequests

\* record.count >= maxRequests
WindowFull(record) == record.count >= maxRequests

ClientKey(request) == OrElse(request.forwardedFor, "unknown")

\* applyRateLimit at time t: the store it leaves and the 429 response, if any.
applyRateLimit(store, request, t) ==
  LET ip == ClientKey(request)
  IN  IF ip \in DOMAIN store /\ store[ip].resetTime > t
        THEN IF WindowFull(store[ip])
               THEN [store |-> store, limited |-> TRUE,
                     response |-> RateLimited(store[ip], t)]
               ELSE [store |-> Cleanup([store EXCEPT ![ip].count = @ + 1], t),
                     limited |-> FALSE, response |-> NoResponse]
        ELSE [store |-> Cleanup(StoreSet(store, ip, [count |-> 1, resetTime |-> t + windowMs]), t),
              limited |-> FALSE, response |-> NoResponse]

\* The part of middleware after rate limiting.
Authenticate(request) ==
  IF \E p \in publicPaths : StartsWith(request.path, p)
    THEN PassOn(Undefined)
  ELSE IF \E p \in protectedPaths : StartsWith(request.path, p)
    THEN IF request.authorization \in {Undefined, ""} /\ request.apiKey \in {Undefined, ""}
           THEN Json(401, "UNAUTHORIZED")
         ELSE IF IsBearer(request.authorization)
           THEN IF verifyToken(request.authorization).sub = Null
                  THEN Json(401, "INVALID_TOKEN")
                  ELSE PassOn(verifyToken(request.authorization).sub)
         ELSE PassOn(Undefined)
  ELSE PassOn(Undefined)

\* The window of a client as an observer of the traffic keeps it: when it
\* opened, and how many requests got past the rate limit since.
Observe(log, ip, t, passed) ==
  LET current == IF ip \in DOMAIN log /\ t < log[ip].opened + windowMs
                   THEN log[ip]
                   ELSE [opened |-> t, passed |-> 0]
  IN  StoreSet(log, ip, [current EXCEPT !.passed = @ + (IF passed THEN 1 ELSE 0)])

\* One run of middleware(request), with Date.now() reading t.
Middleware(request, t) ==
  /\ t >= now
  /\ now' = t
  /\ lastRequest' = request
  /\ IF request.method = "OPTIONS"
       THEN /\ lastResponse' = Preflight
            /\ UNCHANGED <<rateLimitStore, windowLog>>
       ELSE LET rateLimitResult == applyRateLimit(rateLimitStore, request, t)
            IN  /\ rateLimitStore' = rateLimitResult.store
                /\ lastResponse' = IF rateLimitResult.limited
                                     THEN rateLimitResult.response
                                     ELSE Authenticate(request)
                /\ windowLog' = Observe(windowLog, ClientKey(request), t,
                                        ~rateLimitResult.limited)
  /\ UNCHANGED <<streamVars, chatVars, toolVars, errorVars, restVars>>

\* The client may send at time t without going over `most` requests in
\* its window.
Below(ip, t, most) ==
  IF ip \in DOMAIN rateLimitStore
    THEN rateLimitStore[ip].count < most \/ rateLimitStore[ip].resetTime <= t
    ELSE TRUE

\* Traffic of two clients: the one without x-forwarded-for sends as much as
\* it likes, the other one stays under the limit.
RateLimitRun ==
  \E request \in RateLimitRequests, t \in Instants :
     /\ request.forwardedFor # Undefined => Below(ClientKey(request), t, MaxLight)
     /\ Middleware(request, t)

\* A few requests with every kind of path and credentials.
AuthRun ==
  \E request \in AuthRequests, t \in Instants :
     /\ Below(ClientKey(request), t, MaxAuthRequests)
     /\ Middleware(request, t)

NextRateLimit == RateLimitRun

SpecRateLimit == InitIdle /\ [][NextRateLimit]_vars

NextAuth == AuthRun

SpecAuth == InitIdle /\ [][NextAuth]_vars

(***************************************************************************)
(* createChatCompletion.  An optional boolean or number of the options is  *)
(* "undefined" or its literal; options.tools is a list, empty when it is   *)
(* not given (the code only tests options.tools?.length).                  *)
(***************************************************************************)
\* a ?? b: b when a is undefined or null.
Coalesce(a, b) == IF a \in {Undefined, Null} THEN b ELSE a

CompletionOptions ==
  [model : {Undefined, "gpt-4o"},
   temperature : {Undefined, "0"},
   maxTokens : {Undefined, "256"},
   stream : {Undefined, "true", "false"},
   messages : {<<UserMessage>>},
   tools : {<<>>, <<"file_read">>},
   toolChoice : {Undefined}]

\* const completionOptions = {...}, with tools and tool_choice when tools
\* are given.
completionOptions(options) ==
  LET base == [model |-> OrElse(options.model, "gpt-4-turbo-preview"),
               messages |-> normalizeMessages(options.messages),
               temperature |-> Coalesce(options.temperature, "0.7"),
               max_tokens |-> Coalesce(options.maxTokens, "4096"),
               stream |-> Coalesce(options.stream, "true"),
               user |-> "correlationId"]
  IN  IF Len(options.tools) > 0
        THEN [f \in DOMAIN base \cup {"tools", "tool_choice"} |->
                IF f = "tools" THEN options.tools
                ELSE IF f = "tool_choice" THEN options.toolChoice
                ELSE base[f]]
        ELSE base

\* What the client resolves create(request) with: a stream of chunks for
\* stream: true, a single completion otherwise.
ProviderResponse(request) ==
  IF request.stream = "true"
    THEN [kind |-> "Stream", of |-> "ChatCompletionChunk"]
    ELSE [kind |-> "ChatCompletion"]

\* createStreamFromResponse(response): a ReadableStream over the response.
createStreamFromResponse(response) ==
  [kind |-> "ReadableStream", of |-> "StreamChunk", source |-> response]

\* One call of createChatCompletion whose provider call resolves.
CreateChatCompletion(options) ==
  /\ LET request == completionOptions(options)
         response == ProviderResponse(request)
     IN  completionCall' =
           IF options.stream = "true"
             THEN [outcome |-> "returned", options |-> options, request |-> request,
                   value |-> createStreamFromResponse(response),
                   latency |-> "chat_completion_stream"]
             ELSE [outcome |-> "returned", options |-> options, request |-> request,
                   value |-> response, latency |-> "chat_completion_sync"]
  /\ UNCHANGED <<streamVars, chatVars, toolVars, errorVars, middlewareVars,
                 pagePc, pageLines, pageBody, assistantContent, routeCall,
                 latencies, percentileCall>>

\* One call whose provider call rejects: throw handleOpenAIError(error).
CreateChatCompletionFails(options, error) ==
  /\ completionCall' = [outcome |-> "threw", options |-> options,
                        request |-> completionOptions(options),
                        thrown |-> handleOpenAIError(error)]
  /\ UNCHANGED <<streamVars, chatVars, toolVars, errorVars, middlewareVars,
                 pagePc, pageLines, pageBody, assistantContent, routeCall,
                 latencies, percentileCall>>

NextCompletion ==
  \/ \E options \in CompletionOptions : CreateChatCompletion(options)
  \/ \E options \in CompletionOptions,
        error \in { [class |-> "OpenAI.APIError", status |-> 429, message |-> "boom"],
                    [class |-> "Error", message |-> "boom"] } :
        CreateChatCompletionFails(options, error)

SpecCompletion == InitIdle /\ [][NextCompletion]_vars

(***************************************************************************)
(* ChatPage.handleSendMessage reading the response.  The response text is  *)
(* a sequence of tokens; a line is "{", its content delta, "}" and "\n".   *)
(* A read() result is any non-empty prefix of what is still unread.        *)
(***************************************************************************)
MaxLines == 2

\* The content deltas a line can carry; null for a line without content.
LineContents == {"a", "b", Null}

RECURSIVE ResponseText(_)
ResponseText(lines) ==
  IF lines = <<>> THEN <<>>
  ELSE <<LBrace, Head(lines), RBrace, "\n">> \o ResponseText(Tail(lines))

\* chunk.split('\n')
RECURSIVE Split(_, _)
Split(text, separator) ==
  IF text = <<>> THEN << <<>> >>
  ELSE LET rest == Split(Tail(text), separator)
       IN  IF Head(text) = separator
             THEN << <<>> >> \o rest
             ELSE << <<Head(text)>> \o rest[1] >> \o Tail(rest)

\* JSON.parse(line): only a whole line is JSON text.
ParseLine(line) ==
  IF Len(line) = 3 /\ line[1] = LBrace /\ line[3] = RBrace /\ line[2] \in LineContents
    THEN [ok |-> TRUE, content |-> line[2]]
    ELSE [ok |-> FALSE, content |-> Null]

Truthy(content) == content \notin {Null, Undefined, ""}

\* for (const line of lines) { try {...} catch {} }
RECURSIVE AppendLines(_, _)
AppendLines(content, lines) ==
  IF lines = <<>> THEN content
  ELSE LET data == ParseLine(Head(lines))
       IN  AppendLines(IF data.ok /\ Truthy(data.content)
                         THEN content \o <<data.content>>
                         ELSE content,
                       Tail(lines))

\* fetch('/api/chat') has answered with a body of these lines.
PageFetch(lines) ==
  /\ pagePc = "idle"
  /\ pagePc' = "reading"
  /\ pageLines' = lines
  /\ pageBody' = ResponseText(lines)
  /\ assistantContent' = <<>>
  /\ UNCHANGED <<streamVars, chatVars, toolVars, errorVars, middlewareVars,
                 completionCall, routeCall, latencies, percentileCall>>

\* reader.read() returns the next n tokens.
PageRead(n) ==
  /\ pagePc = "reading"
  /\ n \in 1..Len(pageBody)
  /\ LET chunk == SubSeq(pageBody, 1, n)
         lines == SelectSeq(Split(chunk, "\n"), LAMBDA line : line # <<>>)
     IN  assistantContent' = AppendLines(assistantContent, lines)
  /\ pageBody' = SubSeq(pageBody, n + 1, Len(pageBody))
  /\ UNCHANGED <<pagePc, pageLines>>
  /\ UNCHANGED <<streamVars, chatVars, toolVars, errorVars, middlewareVars,
                 completionCall, routeCall, latencies, percentileCall>>

\* reader.read() reports done: break.
PageDone ==
  /\ pagePc = "reading"
  /\ pageBody = <<>>
  /\ pagePc' = "done"
  /\ UNCHANGED <<pageLines, pageBody, assistantContent>>
  /\ UNCHANGED <<streamVars, chatVars, toolVars, errorVars, middlewareVars,
                 completionCall, routeCall, latencies, percentileCall>>

NextPage ==
  \/ \E lines \in (UNION { [1..n -> LineContents] : n \in 0..MaxLines }) : PageFetch(lines)
  \/ \E n \in 1..Len(pageBody) : PageRead(n)
  \/ PageDone

SpecPage == InitIdle /\ [][NextPage]_vars

(***************************************************************************)
(* GET /api/messages.  userId is what getUserId(request) returned and      *)
(* sessionId what searchParams.get('sessionId') returned: null or a        *)
(* string, possibly empty.                                                 *)
(***************************************************************************)

\* The sessions of the store, with their owners and messages.
StoredSessions ==
  [id \in {"s1", "s2"} |->
     IF id = "s1"
       THEN [id |-> "s1", userId |-> "u1",
             messages |-> <<EarlierMessage(1), EarlierMessage(2), UserMessage>>]
       ELSE [id |-> "s2", userId |-> "u2", messages |-> <<UserMessage>>]]

\* memoryService.getSession(sessionId): the session, or null.
FindSession(sessionId) ==
  IF sessionId \in DOMAIN StoredSessions
    THEN StoredSessions[sessionId]
    ELSE [id |-> Null, userId |-> Null, messages |-> <<>>]

SessionDeniedWhenMissing(session, userId) == SessionMissing(session)

\* if (!session || session.userId !== userId)
SessionDenied(session, userId) ==
  \/ SessionMissing(session)
  \/ session.userId # userId

\* z.coerce.number() of a query parameter, -1 standing for NaN.
NumberOf(param) ==
  CASE param = "0" -> 0
    [] param = "1" -> 1
    [] param = "2" -> 2
    [] OTHER -> -1

\* pagination.success ? (pagination.data.limit || 100) : 100, the schema
\* being limit: z.coerce.number().min(1).max(100).default(20).
RouteLimit(param) ==
  IF param = Undefined THEN 20
  ELSE IF NumberOf(param) >= 1 /\ NumberOf(param) <= 100 THEN NumberOf(param)
  ELSE DefaultLimit

ErrorResponse(status, code, message) ==
  [status |-> status,
   body |-> [code |-> code, message |-> message, correlationId |-> "correlationId"]]

\* The response of GET and the store calls it made.
GET(userId, sessionId, limitParam, store) ==
  IF ~Truthy(userId)
    THEN [response |-> ErrorResponse(401, "UNAUTHORIZED", "Authentication required"),
          getSession |-> <<>>, getMessages |-> <<>>]
  ELSE IF ~Truthy(sessionId)
    THEN [response |-> ErrorResponse(400, "MISSING_SESSION_ID",
                                     "sessionId query parameter is required"),
          getSession |-> <<>>, getMessages |-> <<>>]
  ELSE IF store = "getSessionThrows"
    THEN [response |-> ErrorResponse(500, "INTERNAL_ERROR", "Failed to list messages"),
          getSession |-> <<sessionId>>, getMessages |-> <<>>]
  ELSE IF SessionDenied(FindSession(sessionId), userId)
    THEN [response |-> ErrorResponse(404, "SESSION_NOT_FOUND", "Session not found"),
          getSession |-> <<sessionId>>, getMessages |-> <<>>]
  ELSE IF store = "getMessagesThrows"
    THEN [response |-> ErrorResponse(500, "INTERNAL_ERROR", "Failed to list messages"),
          getSession |-> <<sessionId>>,
          getMessages |-> << <<sessionId, RouteLimit(limitParam)>> >>]
  ELSE LET found == getMessages(FindSession(sessionId).messages, RouteLimit(limitParam))
       IN  [response |-> [status |-> 200,
                          body |-> [messages |-> found, total |-> Len(found)]],
            getSession |-> <<sessionId>>,
            getMessages |-> << <<sessionId, RouteLimit(limitParam)>> >>]

\* One GET /api/messages.
GetMessagesRoute(userId, sessionId, limitParam, store) ==
  /\ LET answer == GET(userId, sessionId, limitParam, store)
     IN  routeCall' = [outcome |-> "answered", userId |-> userId,
                       sessionId |-> sessionId, limit |-> limitParam,
                       store |-> store, response |-> answer.response,
                       getSession |-> answer.getSession,
                       getMessages |-> answer.getMessages]
  /\ UNCHANGED <<streamVars, chatVars, toolVars, errorVars, middlewareVars,
                 completionCall, pagePc, pageLines, pageBody, assistantContent,
                 latencies, percentileCall>>

NextRoute ==
  \E userId \in {Null, "", "u1", "u2"},
     sessionId \in {Null, "", "s1", "s2", "s9"},
     limitParam \in {Undefined, "0", "1", "2", "abc"},
     store \in {"ok", "getSessionThrows", "getMessagesThrows"} :
        GetMessagesRoute(userId, sessionId, limitParam, store)

SpecRoute == InitIdle /\ [][NextRoute]_vars

(***************************************************************************)
(* MetricsRecorder: recordLatency and getLatencyPercentile.  A returned    *)
(* number n is <<n>>, a returned undefined is <<>>.                        *)
(***************************************************************************)
MaxRecorded == 3    \* most latencies recorded under one name
SampleCap == 1000

\* this.latencies.get(name) || []
LatenciesOf(recorded, name) ==
  IF name \in DOMAIN recorded THEN recorded[name] ELSE <<>>

\* const sorted = [...latencies].sort((a, b) => a - b); the index is
\* Math.floor(sorted.length * (percentile / 100)); sorted[index] is undefined
\* when the index is past the end.
getLatencyPercentile(recorded, name, percentile) ==
  LET list == LatenciesOf(recorded, name)
      sorted == SortSeq(list, LAMBDA a, b : a < b)
      index == (Len(sorted) * percentile) \div 100
  IN  IF Len(list) = 0 THEN <<0>>
      ELSE IF index + 1 \in 1..Len(sorted) THEN <<sorted[index + 1]>>
      ELSE <<>>

\* latencies.push(latencyMs), then latencies.shift() when the list is longer
\* than the cap.
RecordLatency(name, latencyMs) ==
  /\ Len(LatenciesOf(latencies, name)) < MaxRecorded
  /\ LET longer == Append(LatenciesOf(latencies, name), latencyMs)
         kept == IF Len(longer) > SampleCap THEN Tail(longer) ELSE longer
     IN  latencies' = [n \in DOMAIN latencies \cup {name} |->
                         IF n = name THEN kept ELSE latencies[n]]
  /\ UNCHANGED percentileCall
  /\ UNCHANGED <<streamVars, chatVars, toolVars, errorVars, middlewareVars,
                 completionCall, pagePc, pageLines, pageBody, assistantContent,
                 routeCall>>

GetLatencyPercentile(name, percentile) ==
  /\ percentileCall' = [name |-> name, percentile |-> percentile,
                        returned |-> getLatencyPercentile(latencies, name, percentile)]
  /\ UNCHANGED latencies
  /\ UNCHANGED <<streamVars, chatVars, toolVars, errorVars, middlewareVars,
                 completionCall, pagePc, pageLines, pageBody, assistantContent,
                 routeCall>>

NextMetrics ==
  \/ \E name \in {"chat_completion_stream", "api_messages_list"}, latencyMs \in {1, 5} :
        RecordLatency(name, latencyMs)
  \/ \E name \in {"chat_completion_stream", "api_messages_list"},
        percentile \in {0, 50, 95, 99, 100} :
        GetLatencyPercentile(name, percentile)

SpecMetrics == InitIdle /\ [][NextMetrics]_vars

(***************************************************************************)
(* Properties of the streaming orchestration.                              *)
(***************************************************************************)
Cancelled == cancelledAt # "never"

FinishReasonsOf(chunk) ==
  { chunk.choices[j].finishReason : j \in 1..Len(chunk.choices) } \ {Null}

HasToolCallDelta(chunk) ==
  \E j \in 1..Len(chunk.choices) : chunk.choices[j].delta.toolCalls # <<>>

\* The provider stream so far carries no tool-call delta and no tool_calls
\* finish reason.
PlainStream ==
  \A i \in 1..Len(provided) :
     ~HasToolCallDelta(provided[i]) /\ "tool_calls" \notin FinishReasonsOf(provided[i])

\* A tool_calls finish reason has arrived with fragments in the buffer.
ToolTurn ==
  /\ toolCallsBuffer # <<>>
  /\ \E i \in 1..Len(provided) : "tool_calls" \in FinishReasonsOf(provided[i])

\* The text a sequence of provider chunks carries, in order.
ProviderTexts(choices) ==
  LET HasText(c) == c.delta.content \notin {Undefined, Null}
      texts == SelectSeq(choices, HasText)
  IN  [i \in 1..Len(texts) |-> texts[i].delta.content]

RECURSIVE ProviderContent(_)
ProviderContent(chunks) ==
  IF chunks = <<>> THEN <<>>
  ELSE ProviderTexts(Head(chunks).choices) \o ProviderContent(Tail(chunks))

\* The text a reader of the caller-facing stream gets out of its lines.
ForwardedTexts(choices) ==
  LET HasText(c) == "content" \in DOMAIN c.delta /\ c.delta.content # Null
      texts == SelectSeq(choices, HasText)
  IN  [i \in 1..Len(texts) |-> texts[i].delta.content]

RECURSIVE ForwardedContent(_)
ForwardedContent(queue) ==
  IF queue = <<>> THEN <<>>
  ELSE ForwardedTexts(Head(queue).ndjson.choices) \o ForwardedContent(Tail(queue))

\* The line a chunk without tool-call deltas is forwarded as, written out
\* member by member.
ExpectedLine(chunk) ==
  [ndjson |->
     [id |-> chunk.id, object |-> "chat.completion.chunk",
      choices |-> [j \in 1..Len(chunk.choices) |->
         [index |-> chunk.choices[j].index,
          delta |-> IF chunk.choices[j].delta.content = Undefined
                      THEN <<>>
                      ELSE [content |-> chunk.choices[j].delta.content],
          finishReason |-> chunk.choices[j].finishReason]]]]

\* C1: in an exchange without tool-call deltas and without a tool_calls
\* finish reason, as long as the caller has not cancelled, the chunks
\* enqueued to the caller are exactly the provider's chunks, each once and
\* in arrival order, the one carrying the finish reason being the last one
\* read and forwarded; the forwarded content deltas concatenate to the
\* provider's content deltas.
C1_PlainExchangeForwardedVerbatim ==
  (PlainStream /\ ~Cancelled) =>
     /\ enqueued = [i \in 1..Len(provided) |-> ExpectedLine(provided[i])]
     /\ ForwardedContent(enqueued) = ProviderContent(provided)
     /\ \A i \in 1..Len(provided) :
          FinishReasonsOf(provided[i]) # {} => (i = Len(provided) /\ pc = "returned")

\* Witness of C1: two content chunks and a final stop chunk were forwarded.
C1_Witness ==
  /\ PlainStream /\ ~Cancelled
  /\ pc = "returned"
  /\ Len(provided) = 3
  /\ ProviderContent(provided) = <<"a", "b">>
  /\ FinishReasonsOf(provided[3]) = {"stop"}
  /\ Len(enqueued) = 3

\* C2: on a tool_calls finish reason with N accumulated fragments whose
\* argument strings all parse, executeTool has been called, when start()
\* returns, exactly N times, once per fragment, in ascending fragment-index
\* order.  (C7 is about argument strings that do not parse.)
C2_ToolsRunInIndexOrder ==
  (/\ ToolTurn
   /\ \A i \in 1..Len(toolCallsBuffer) : JSONparse(toolCallsBuffer[i].arguments).ok)
  =>
     /\ \A k \in 1..Len(executions) :
          Cardinality({ i \in 1..Len(toolCallsBuffer) :
                          toolCallsBuffer[i].index < executions[k].fragment }) = k - 1
     /\ pc = "returned" => Len(executions) = Len(toolCallsBuffer)

\* The tool-role messages in a provider request.
ToolMessagesIn(request) ==
  { i \in 1..Len(request.messages) : request.messages[i].role = "tool" }

\* C3: every continuation completion call of a tool_calls turn with N
\* fragments is issued after all N tool-role messages have been saved: the
\* history it is built from holds N tool messages.
C3_AllToolMessagesSavedBeforeContinuation ==
  \A k \in 1..Len(completions) :
     Cardinality(ToolMessagesIn(completions[k].request)) >= Len(toolCallsBuffer)

\* C4: once the chunk with finish reason stop, length or content_filter has
\* been processed and start() has returned, that chunk was forwarded and
\* the caller-facing stream is closed.
C4_ClosedAfterFinishReason ==
  (/\ pc = "returned"
   /\ ~Cancelled
   /\ \E i \in 1..Len(provided) :
        FinishReasonsOf(provided[i]) \cap {"stop", "length", "content_filter"} # {})
  =>
     /\ enqueued # <<>>
     /\ enqueued[Len(enqueued)] = EncodeChunk(provided[Len(provided)])
     /\ controller = "closed"

\* C5: after the caller has cancelled the stream while the model turn was
\* still streaming, no executeTool call happens.
C5_NoToolAfterCancel ==
  [][cancelledAt = "read" => executions' = executions]_vars

\* C6: when reading the provider stream fails before a finish reason, no
\* tool was executed and the caller-facing stream is errored: not left
\* open and not closed by the orchestrator (a stream the caller had already
\* cancelled stays closed by that cancel).
C6_ReadFailureErrorsStream ==
  providerEnd = "failed" =>
     /\ executions = <<>>
     /\ pc = "returned"
     /\ ~hasFinishReason
     /\ controller = IF Cancelled THEN "closed" ELSE "errored"

\* Witness of C6: the read failed mid-turn, after a content chunk and with
\* a tool-call fragment accumulated, and the stream is errored.
C6_Witness ==
  /\ providerEnd = "failed"
  /\ controller = "errored"
  /\ toolCallsBuffer # <<>>
  /\ ProviderContent(provided) # <<>>

\* C7: when start() has returned from a tool_calls turn, every fragment
\* whose argument string is not valid JSON has a persisted tool-role
\* message with its call id and a ToolResult with success = false, and the
\* stream is not errored.
C7_ParseFailureBecomesToolResult ==
  (ToolTurn /\ pc = "returned") =>
     /\ controller # "errored"
     /\ \A i \in 1..Len(toolCallsBuffer) :
          ~JSONparse(toolCallsBuffer[i].arguments).ok =>
             \E m \in 1..Len(messages) :
                /\ messages[m].role = "tool"
                /\ messages[m].toolCallId = toolCallsBuffer[i].id
                /\ ~messages[m].content.success

\* The saveMessage calls made for execution k.
SavesOf(k) == { i \in 1..Len(saves) : saves[i].execution = k }

\* The fragment an execution was run for.
FragmentOf(k) ==
  toolCallsBuffer[CHOOSE i \in 1..Len(toolCallsBuffer) :
                     toolCallsBuffer[i].index = executions[k].fragment]

StoredSaves == SelectSeq(saves, LAMBDA call : call.stored)

\* C8: every executeTool call that returned success = false is followed by
\* exactly one saveMessage call, with a tool-role message whose content is
\* the serialized ToolResult and whose toolCallId is the fragment's id; the
\* store holds exactly the messages whose create went through, in order,
\* and the caller-facing stream is not errored.
C8_FailedToolResultPersisted ==
  /\ \A k \in 1..Len(executions) :
       (~executions[k].result.success /\ ~(k = Len(executions) /\ pc = "save")) =>
          /\ Cardinality(SavesOf(k)) = 1
          /\ \A i \in SavesOf(k) :
               /\ saves[i].message.role = "tool"
               /\ saves[i].message.toolCallId = FragmentOf(k).id
               /\ saves[i].message.content.success = FALSE
               /\ saves[i].message.content.error = executions[k].result.error
               /\ saves[i].message.content.executionTimeMs
                     = executions[k].result.executionTimeMs
               /\ DOMAIN saves[i].message.content
                     = {"success", "error", "executionTimeMs"}
               /\ saves[i].returned => saves[i].stored
  /\ SubSeq(messages, 2, Len(messages))
        = [i \in 1..Len(StoredSaves) |-> StoredSaves[i].message]
  /\ executions # <<>> => controller # "errored"

\* Witness of C8: two failed tool calls (an unknown tool, then a validation
\* failure or an executor that threw) have each been persisted in the store
\* under the call id of their fragment.
C8_Witness ==
  /\ pc = "returned"
  /\ Len(executions) = 2
  /\ executions[1].result.error = <<"Tool not found", "no_such_tool">>
  /\ executions[1].fragment = 1
  /\ executions[2].result.error \in
        { <<"Missing required field", "path">>, <<"exception", "file_read">> }
  /\ Len(messages) = 3
  /\ messages[2].toolCallId = "call_B"
  /\ messages[3].toolCallId = "call_A"
  /\ messages[3].content.error = executions[2].result.error

\* The lines of `stream`, in order, among the enqueued lines from `from` on.
RECURSIVE ForwardedInOrder(_, _)
ForwardedInOrder(stream, from) ==
  \/ stream = <<>>
  \/ \E i \in from..Len(enqueued) :
        /\ enqueued[i] = EncodeChunk(Head(stream))
        /\ ForwardedInOrder(Tail(stream), i + 1)

\* C9: when start() has returned and the caller has not cancelled, the
\* chunks of every continuation completion that was obtained have been
\* forwarded to the caller-facing stream, in order.
C9_ContinuationForwarded ==
  (pc = "returned" /\ ~Cancelled) =>
     \A k \in 1..Len(completions) :
        completions[k].ok => ForwardedInOrder(completions[k].response, 1)

\* C10: a failed continuation completion call aborts the exchange: start()
\* is over (no further tool, no further continuation call) and the
\* caller-facing stream is errored unless the caller had cancelled it.
C10_ContinuationFailureAborts ==
  \A k \in 1..Len(completions) :
     ~completions[k].ok =>
        /\ k = Len(completions)
        /\ pc = "returned"
        /\ ~Cancelled => controller = "errored"

(***************************************************************************)
(* processChat                                                             *)
(***************************************************************************)

InitialCallFailed == initialCalls # <<>> /\ ~initialCalls[Len(initialCalls)].ok

NothingHappened ==
  /\ controller = "none"
  /\ enqueued = <<>>
  /\ executions = <<>>
  /\ saves = <<>>
  /\ messages = <<UserMessage>>

\* C11: when the provider's completion call fails in the initial turn,
\* processChat rejects with an APIError and returns no stream: no chunk is
\* delivered, no tool is executed and no message is persisted.
C11_InitialCallFailureRejects ==
  InitialCallFailed =>
    /\ chatResult.kind = "rejected"
    /\ chatResult.error.class = "APIError"
    /\ pc = "rejected"
    /\ NothingHappened

C11_Witness ==
  /\ InitialCallFailed
  /\ chatResult.kind = "rejected"
  /\ chatResult.error.originalError \in ProviderFailures

\* C12: when memoryService.getSession returns null, processChat rejects
\* without issuing a completion call, executing a tool or persisting a
\* message.
C12_MissingSessionRejects ==
  chatSession.id = Null =>
    /\ chatResult.kind = "rejected"
    /\ pc = "rejected"
    /\ initialCalls = <<>>
    /\ completions = <<>>
    /\ NothingHappened

C12_Witness ==
  /\ chatSession.id = Null
  /\ chatResult.kind = "rejected"
  /\ chatResult.error.originalError.class = "Error"

(***************************************************************************)
(* Tool-call fragments                                                     *)
(***************************************************************************)

RECURSIVE DeltasOfChoices(_, _)
DeltasOfChoices(choices, n) ==
  IF n = 0 THEN <<>>
  ELSE DeltasOfChoices(choices, n - 1) \o choices[n].delta.toolCalls

\* The tool-call deltas the read loop has gone through, in arrival order:
\* those of the chunks read before, and of the running chunk the choices up
\* to the one whose tool loop is running.
RECURSIVE ArrivedDeltas(_)
ArrivedDeltas(n) ==
  IF n = 0 THEN <<>>
  ELSE ArrivedDeltas(n - 1) \o
       DeltasOfChoices(provided[n].choices,
                       IF n = Len(provided) /\ choiceIdx > 0
                         THEN choiceIdx ELSE Len(provided[n].choices))

\* The pieces the deltas from the k-th on carry for one index, in a row.
RECURSIVE ArgumentsSent(_, _, _)
ArgumentsSent(deltas, k, index) ==
  IF k > Len(deltas) THEN <<>>
  ELSE (IF deltas[k].index = index THEN deltas[k].function.arguments ELSE <<>>)
       \o ArgumentsSent(deltas, k + 1, index)

\* C13: however a tool call's argument string is split over deltas of one
\* index, and whatever deltas of other indexes arrive in between, the
\* fragment table holds for that index, when the finish reason starts the
\* tool loop, the concatenation of the pieces in arrival order, which is
\* the unsplit string.
C13_FragmentsConcatenateInArrivalOrder ==
  pc = "exec" =>
    LET deltas == ArrivedDeltas(Len(provided))
    IN  /\ \A p \in 1..Len(toolCallsBuffer) :
              toolCallsBuffer[p].arguments = ArgumentsSent(deltas, 1, toolCallsBuffer[p].index)
        /\ \A k \in 1..Len(deltas) : BufferPosition(toolCallsBuffer, deltas[k].index) # 0

\* The finish reason has arrived after "{" and "}" of index 0 came in two
\* deltas with a delta of index 1 between them.
C13_Witness ==
  /\ pc = "exec"
  /\ Len(provided) = 3
  /\ provided[1].choices[1].delta.toolCalls = ParallelOpening
  /\ toolCallsBuffer[1].index = 0
  /\ toolCallsBuffer[1].arguments = <<LBrace, RBrace>>
  /\ toolCallsBuffer[2].arguments = <<LBrace, PathMember, RBrace>>

(***************************************************************************)
(* ToolService                                                             *)
(***************************************************************************)

Called == lastCall.toolName # Null

\* C14: executeTool for a name that is not in the registry returns
\* success=false with error "Tool not found: <name>" and an
\* executionTimeMs >= 0, raises no exception and invokes no executor,
\* whatever registerTool has put into the registry.
C14_UnknownToolNotFound ==
  (Called /\ lastCall.toolName \notin DOMAIN lastCall.registry) =>
    /\ lastCall.raised = Absent
    /\ ~lastCall.invoked
    /\ ~lastCall.result.success
    /\ lastCall.result.error = <<"Tool not found", lastCall.toolName>>
    /\ lastCall.result.result = Absent
    /\ lastCall.result.executionTimeMs >= 0

\* A tool has been registered and another name is still unknown.
C14_Witness ==
  /\ Called
  /\ "custom" \in DOMAIN lastCall.registry
  /\ lastCall.toolName = "nonexistent_tool"
  /\ lastCall.result.executionTimeMs > 0

Registered == Called /\ lastCall.toolName \in DOMAIN lastCall.registry

CalledSchema == lastCall.registry[lastCall.toolName]

RequiredOf(schema) == IF "required" \in DOMAIN schema THEN schema.required ELSE <<>>

\* The field is absent from the parameter object, or undefined, or null.
FieldMissing(parameters, field) ==
  \A i \in 1..Len(parameters) :
     parameters[i][1] = field =>
        \/ parameters[i][2] = "undefined"
        \/ parameters[i][2] = "object" /\ parameters[i][3] = "null"

\* C15: with a required field absent, undefined or null, executeTool on a
\* registered tool returns success=false with "Missing required field: <f>"
\* for the first such field in the schema's required order, and does not
\* invoke the executor.
C15_MissingRequiredField ==
  Registered =>
    LET required == RequiredOf(CalledSchema)
    IN  \A k \in 1..Len(required) :
          ( /\ FieldMissing(lastCall.parameters, required[k])
            /\ \A j \in 1..(k - 1) : ~FieldMissing(lastCall.parameters, required[j]) )
          => /\ ~lastCall.result.success
             /\ lastCall.result.error = <<"Missing required field", required[k]>>
             /\ ~lastCall.invoked
             /\ lastCall.raised = Absent

\* The second field of the required order <<"b", "a">> is given, the first
\* is not.
C15_Witness ==
  /\ Registered
  /\ lastCall.toolName = "custom"
  /\ RequiredOf(CalledSchema) = <<"b", "a">>
  /\ lastCall.parameters = << <<"a", "string", "x">> >>
  /\ lastCall.result.error = <<"Missing required field", "b">>

WholeNumbers == {"1", "10"}

\* The value of a parameter entry is of the type the schema declares.
OfDeclaredType(entry, type) ==
  CASE type = "integer" -> entry[2] = "number" /\ entry[3] \in WholeNumbers
    [] type = "number"  -> entry[2] = "number"
    [] OTHER            -> entry[2] = type

\* The parameter object satisfies the schema.
SchemaSatisfied(parameters, schema) ==
  /\ \A k \in 1..Len(RequiredOf(schema)) :
        ~FieldMissing(parameters, RequiredOf(schema)[k])
  /\ \A i \in 1..Len(parameters) :
        parameters[i][1] \in DOMAIN schema.properties =>
          LET prop == schema.properties[parameters[i][1]]
          IN  /\ OfDeclaredType(parameters[i], prop.type)
              /\ prop.enum # {} => parameters[i][3] \in prop.enum

\* C16: executeTool rejects exactly the parameter objects that violate the
\* tool's schema: the executor is invoked whenever the required fields are
\* there and every present field with a schema entry has the declared type
\* (a whole number for 'integer') and satisfies its enum, and only then.
\* Stated for schemas with a required list, as all built-in tools have.
C16_RejectsExactlySchemaViolations ==
  (Registered /\ "required" \in DOMAIN CalledSchema) =>
    (lastCall.invoked <=> SchemaSatisfied(lastCall.parameters, CalledSchema))

\* C17: when a registered tool's executor throws, executeTool returns
\* success=false with the exception's message as error and an
\* executionTimeMs; the exception does not reach the caller.
C17_ExecutorExceptionBecomesResult ==
  (Registered /\ lastCall.outcome \in {"threw", "threwValue"}) =>
    /\ lastCall.invoked
    /\ lastCall.raised = Absent
    /\ ~lastCall.result.success
    /\ lastCall.result.result = Absent
    /\ lastCall.result.executionTimeMs >= 0
    /\ lastCall.outcome = "threw" =>
          lastCall.result.error = Thrown("threw", lastCall.toolName).message

C17_Witness ==
  /\ Registered
  /\ lastCall.outcome = "threw"
  /\ lastCall.invoked
  /\ lastCall.result.error = <<"exception", lastCall.toolName>>
  /\ lastCall.result.executionTimeMs = MaxElapsed

(***************************************************************************)
(* handleOpenAIError                                                       *)
(***************************************************************************)

\* The code the status of a provider API error is to be mapped to.
CodeForStatus(status) ==
  CASE status = 400 -> "BAD_REQUEST"
    [] status = 401 -> "UNAUTHORIZED"
    [] status = 403 -> "FORBIDDEN"
    [] status = 404 -> "NOT_FOUND"
    [] status = 429 -> "RATE_LIMITED"
    [] status \in 500..599 -> "INTERNAL_ERROR"
    [] OTHER -> "UNKNOWN_ERROR"

\* C18: handleOpenAIError maps a provider API error by its status: 400 to
\* BAD_REQUEST, 401 to UNAUTHORIZED, 403 to FORBIDDEN, 404 to NOT_FOUND,
\* 429 to RATE_LIMITED, 500..599 to INTERNAL_ERROR, any other status to
\* UNKNOWN_ERROR.
C18_StatusMapsToCode ==
  handled.error.class = "OpenAI.APIError" =>
    handled.apiError.code = CodeForStatus(handled.error.status)

(***************************************************************************)
(* middleware                                                              *)
(***************************************************************************)

\* The client's window, as the observer keeps it, is open at time t.
WindowOpen(ip, t) == ip \in DOMAIN windowLog /\ t < windowLog[ip].opened + 60000

\* What one run of middleware on a request other than OPTIONS does to the
\* client's window.
RateLimitStep ==
  lastRequest'.method \notin {"none", "OPTIONS"} =>
    LET ip == ClientKey(lastRequest')
        t == now'
    IN  /\ lastResponse'.status = 429 =>
              /\ WindowOpen(ip, t)
              /\ windowLog[ip].passed = 100
              /\ lastResponse'.retryAfter >= 1
              /\ rateLimitStore' = rateLimitStore
        /\ (WindowOpen(ip, t) /\ windowLog[ip].passed >= 100) => lastResponse'.status = 429
        /\ ~WindowOpen(ip, t) =>
              /\ lastResponse'.status # 429
              /\ rateLimitStore'[ip] = [count |-> 1, resetTime |-> t + 60000]

\* C19: in every 60-second window a client key's first request opens, at
\* most 100 requests other than OPTIONS get past applyRateLimit; a further
\* request in the window is answered 429 with Retry-After >= 1 and leaves
\* the stored count as it is; the first request at or after the reset time
\* opens a new window with count 1.
C19_RateLimitPerWindow ==
  /\ [](\A ip \in DOMAIN windowLog : windowLog[ip].passed <= 100)
  /\ [][RateLimitStep]_vars

\* The client without x-forwarded-for is turned away one millisecond before
\* its window ends, while the other client's window is open.
C19_Witness ==
  /\ lastResponse.status = 429
  /\ lastResponse.retryAfter = 1
  /\ ClientKey(lastRequest) = "unknown"
  /\ windowLog["unknown"].passed = 100
  /\ "10.0.0.1" \in DOMAIN rateLimitStore

\* The request carries a Bearer JWT that verifyToken accepts, or an API key.
Authenticated(request) ==
  \/ request.authorization = "Bearer signed"
  \/ request.apiKey \notin {Undefined, ""}

\* C20: all endpoints require authentication: a request other than OPTIONS
\* to an /api path that the middleware passes on carries a Bearer JWT that
\* verifyToken accepts or an API key, and one with neither credential is
\* answered 401, on /api/chat and /api/tools as on /api/sessions and
\* /api/messages.
C20_AllEndpointsRequireAuthentication ==
  lastRequest.method \notin {"none", "OPTIONS"} =>
    /\ lastResponse.kind = "next" => Authenticated(lastRequest)
    /\ (lastRequest.authorization = Undefined /\ lastRequest.apiKey = Undefined)
          => lastResponse.status = 401

(***************************************************************************)
(* transformStream: forwarding, termination, history, cancellation         *)
(***************************************************************************)

\* The forwarded line carries a tool-call delta.
LineHasToolCallDelta(line) ==
  \E j \in 1..Len(line.ndjson.choices) :
     "toolCalls" \in DOMAIN line.ndjson.choices[j].delta

\* C21: no chunk that transformStream enqueues to the caller carries a
\* tool-call delta; the provider's tool-call deltas only go into the
\* fragment table.
C21_NoToolCallDeltaForwarded ==
  \A i \in 1..Len(enqueued) : ~LineHasToolCallDelta(enqueued[i])

\* C22: in an exchange whose provider stream delivers a tool_calls finish
\* reason with fragments to run, the caller-facing stream eventually
\* reaches a terminal state, closed or errored, when every store, tool and
\* provider call returns.
C22_ToolTurnTerminates ==
  ToolTurn ~> (controller \in {"closed", "errored"})

\* C23: the continuation completion call issued after a tool call carries
\* the session's full updated history: the system prompt, then every stored
\* message in creation order, the tool message just persisted included.
C23_ContinuationCarriesFullHistory ==
  [][Len(completions') > Len(completions)
       => completions'[Len(completions')].request = ContinuationRequest(messages)]_vars

\* C24: once the caller has cancelled the caller-facing stream, the
\* provider stream is aborted and the fragment table discarded: no further
\* provider chunk is read and no read is awaited to its end.
C24_NoReadAfterCancel ==
  [][Cancelled => /\ provided' = provided
                  /\ providerEnd' = providerEnd
                  /\ toolCallsBuffer' = toolCallsBuffer]_vars

\* C25: memoryService.saveMessage is all-or-nothing: a call that returned
\* has stored its message, and a call that threw 'Failed to save message'
\* has added no message to the session.
C25_SaveMessageAllOrNothing ==
  \A i \in 1..Len(saves) : saves[i].stored = saves[i].returned

\* C26: createChatCompletion returns a stream exactly when the request it
\* sent to the provider has stream = true, for options.stream true, false
\* and undefined alike; otherwise it returns a single completion.
C26_StreamReturnedIffRequested ==
  completionCall.outcome = "returned" =>
     /\ completionCall.value.kind \in {"ReadableStream", "ChatCompletion"}
     /\ completionCall.value.kind = "ReadableStream"
          <=> completionCall.request.stream = "true"

\* C27: the type and enum checks also apply to a tool added through
\* registerTool whose schema declares properties but no required list: a
\* parameter of the wrong type or outside its enum is rejected with a
\* validation error and the executor is not invoked.
C27_ChecksWithoutRequiredList ==
  (/\ Registered
   /\ "required" \notin DOMAIN CalledSchema
   /\ ~SchemaSatisfied(lastCall.parameters, CalledSchema)) =>
     /\ ~lastCall.invoked
     /\ ~lastCall.result.success

\* The content deltas of the lines, in order.
RECURSIVE ContentOfLines(_)
ContentOfLines(lines) ==
  IF lines = <<>> THEN <<>>
  ELSE (IF Truthy(Head(lines)) THEN <<Head(lines)>> ELSE <<>>)
         \o ContentOfLines(Tail(lines))

\* C28: when the response has been read to its end, the assistant message
\* is the in-order concatenation of the content deltas of all lines of the
\* response, however the response text was split into read() results.
C28_AssistantMessageIsAllContent ==
  pagePc = "done" => assistantContent = ContentOfLines(pageLines)

RouteAnswered == routeCall.outcome = "answered"

\* The session asked for exists and belongs to the caller.
OwnSession ==
  /\ routeCall.userId \notin {Null, ""}
  /\ routeCall.sessionId \in DOMAIN StoredSessions
  /\ StoredSessions[routeCall.sessionId].userId = routeCall.userId

HasMessages == "messages" \in DOMAIN routeCall.response.body

\* C29: GET /api/messages returns messages only when the session exists and
\* its userId is the caller's, and then messages of that session; without
\* a user id the answer is 401, else without a sessionId 400, else for an
\* unknown session or a session of another user 404 (when getSession
\* returned), and in all these cases the response carries no messages and
\* memoryService.getMessages is not called.
C29_MessagesOnlyForOwnSession ==
  RouteAnswered =>
    /\ HasMessages =>
         /\ OwnSession
         /\ routeCall.response.body.messages
              = Take(StoredSessions[routeCall.sessionId].messages,
                     Len(routeCall.response.body.messages))
    /\ ~OwnSession =>
         /\ ~HasMessages
         /\ routeCall.getMessages = <<>>
         /\ routeCall.store # "getSessionThrows" =>
              routeCall.response.status
                = IF routeCall.userId \in {Null, ""} THEN 401
                  ELSE IF routeCall.sessionId \in {Null, ""} THEN 400
                  ELSE 404

\* A caller asked for the session of another user.
C29_Witness ==
  /\ RouteAnswered
  /\ routeCall.userId = "u1"
  /\ routeCall.sessionId = "s2"
  /\ routeCall.response.status = 404

RecordedUnder(name) ==
  LET list == LatenciesOf(latencies, name)
  IN  { list[i] : i \in 1..Len(list) }

\* C30: getLatencyPercentile(name, p) returns one of the latencies recorded
\* under name for every p from 0 to 100 when at least one is recorded, and 0
\* when none is; no list holds more than 1000 samples.
C30_PercentileIsARecordedLatency ==
  /\ \A name \in DOMAIN latencies : Len(latencies[name]) <= SampleCap
  /\ percentileCall # [name |-> "none"] =>
       IF RecordedUnder(percentileCall.name) = {}
         THEN percentileCall.returned = <<0>>
         ELSE /\ percentileCall.returned # <<>>
              /\ percentileCall.returned[1] \in RecordedUnder(percentileCall.name)

====
